---------------------------- MODULE Spec2Model ----------------------------
(***************************************************************************)
(* A model of search-sifter: the interval algebra and the Family class of  *)
(* searchsifter/Family.py and the sifter pipeline of                       *)
(* searchsifter/sifter.py.                                                 *)
(*                                                                         *)
(* Three specifications share the module.  MergeSpec applies the pure      *)
(* function _merge_ranges to bounded inputs.  FamilySpec and UnionSpec     *)
(* drive Family objects.  Spec is the sifter pipeline: one packet          *)
(* travelling from the entry stage to the Terminators.                     *)
(***************************************************************************)
EXTENDS Integers, Sequences, FiniteSets, TLC

VARIABLES
    \* MergeSpec
    ranges,      \* the argument of _merge_ranges
    merged,      \* _merge_ranges(ranges), once computed
    remerged,    \* _merge_ranges(merged), once computed
    mergeCalls,  \* how many of the two calls have returned
    \* Spec: the sifter pipeline
    config,      \* the constructor arguments of the stages
    stack,       \* the sift calls that are due, the next one first
    sifts,       \* the list object package() creates: the audit trail
    results,     \* Terminator.results of every Terminator
    calls,       \* history: every _distribute_results call, in order
    raised,      \* an exception has ended the traversal
    \* FamilySpec and UnionSpec: Family objects
    regions,     \* Family._regions of every family
    signatures,  \* Family._signatures of every family
    fhashes,     \* Family._fhashes of every family
    finalised,   \* Family._finalised of every family
    ret,         \* what the last call on a family was and what it returned
    \* SimilaritySpec, SignatureSpec and ClanSpec: calls of pure functions
    args,        \* the arguments of the call
    returned,    \* what the call returned
    \* LazySpec: threads that read the property Hashes.hashes
    _hashes,     \* Hashes._hashes: None or a reference to a dict
    dicts,       \* the dict objects that have been created, by reference
    pc,          \* where every reader is in the property
    at,          \* how many catalog entries the loop of a reader has taken
    got,         \* what the property returned to a reader
    iterations,  \* how often an iteration of the catalog has been started
    \* SharingSpec: Family objects and the mappings behind them
    heap,        \* the mapping objects, by reference
    refs         \* Family._regions of every family: a reference

mergeVars == <<ranges, merged, remerged, mergeCalls>>

sifterVars == <<config, stack, sifts, results, calls, raised>>

familyVars == <<regions, signatures, fhashes, finalised, ret>>

callVars == <<args, returned>>

lazyVars == <<_hashes, dicts, pc, at, got, iterations>>

heapVars == <<heap, refs>>

vars == <<mergeVars, sifterVars, familyVars, callVars, lazyVars, heapVars>>

(***************************************************************************)
(* Bounds of the model.                                                    *)
(***************************************************************************)
\* Coordinates are drawn from 0..MaxCoord.
MaxCoord == 3
\* _merge_ranges is applied to at most MaxLen ranges.
MaxLen == 3
\* Scores and score thresholds are drawn from 0..MaxScore.
MaxScore == 2
\* Sizes (of the query, of a catalog entry) are drawn from 1..MaxSize.
MaxSize == 2
\* The residues of a protein are 1..MaxResidue.
MaxResidue == 3
\* The families of a specification hold at most MaxRegions regions in all.
MaxRegions == 2
\* union is called with at most MaxOthers other families.
MaxOthers == 2
\* Signature lengths are drawn from 0..MaxN.
MaxN == 3
\* The values of a hash function are drawn from 0..MaxHash.
MaxHash == 1
\* Coordinates of a region that is chunked are drawn from 0..MaxPosition.
MaxPosition == 80
\* Window sizes are drawn from 1..MaxWindow.
MaxWindow == 25

\* The sequences over S of length at most n.
RECURSIVE SeqsUpTo(_, _)
SeqsUpTo(S, n) ==
    IF n = 0 THEN {<<>>}
    ELSE LET shorter == SeqsUpTo(S, n - 1)
         IN  shorter \cup {Append(s, x) : s \in shorter, x \in S}

\* The elements of a set, as a list in the order of an iteration.
RECURSIVE SetToSeq(_)
SetToSeq(S) ==
    IF S = {} THEN <<>>
    ELSE LET x == CHOOSE y \in S : TRUE
         IN  <<x>> \o SetToSeq(S \ {x})

\* set(s) on a list
SeqToSet(s) == {s[i] : i \in 1..Len(s)}

Min(a, b) == IF a < b THEN a ELSE b
Max(a, b) == IF a > b THEN a ELSE b

(***************************************************************************)
(* Python's range(start, stop) with step 1: the two attributes, and len(). *)
(***************************************************************************)
Range(start, stop) == [start |-> start, stop |-> stop]

\* len(r): a range whose stop is not beyond its start is empty.
RangeLen(r) == IF r.stop > r.start THEN r.stop - r.start ELSE 0

\* r == r' on ranges: all empty ranges are equal, the others compare by
\* their attributes.
RangeEq(r1, r2) ==
    \/ RangeLen(r1) = 0 /\ RangeLen(r2) = 0
    \/ RangeLen(r1) > 0 /\ RangeLen(r2) > 0 /\ r1 = r2

\* l == l' on lists of range.
RangeListEq(l1, l2) ==
    /\ Len(l1) = Len(l2)
    /\ \A i \in 1..Len(l1) : RangeEq(l1[i], l2[i])

\* The integers a range holds.
Points(r) == {x \in r.start..(r.stop - 1) : TRUE}

(***************************************************************************)
(* Family.py: overlap(start_1, end_1, start_2, end_2), inclusive           *)
(* coordinates in, half-open range out.                                    *)
(***************************************************************************)
overlap(start_1, end_1, start_2, end_2) ==
    Range(Max(start_1, start_2), Min(end_1, end_2) + 1)

(***************************************************************************)
(* sorted(ranges, key=lambda r: (r.start, r.stop)): a stable insertion     *)
(* sort on the key.                                                        *)
(***************************************************************************)
KeyLeq(r1, r2) ==
    \/ r1.start < r2.start
    \/ r1.start = r2.start /\ r1.stop <= r2.stop

RECURSIVE Insert(_, _)
Insert(r, s) ==
    IF s = <<>> THEN <<r>>
    ELSE IF KeyLeq(s[Len(s)], r) THEN Append(s, r)
    ELSE Append(Insert(r, SubSeq(s, 1, Len(s) - 1)), s[Len(s)])

RECURSIVE SortedByKey(_)
SortedByKey(s) ==
    IF s = <<>> THEN <<>>
    ELSE Insert(s[Len(s)], SortedByKey(SubSeq(s, 1, Len(s) - 1)))

(***************************************************************************)
(* Family.py: _merge_ranges.  MergeCondition is the test of lines 278-279, *)
(* MergeStep one iteration of the loop, _merge_ranges the loop over the    *)
(* sorted input.                                                           *)
(***************************************************************************)
\* A variant that joins overlapping ranges only.
MergeConditionNoAdjacency(r1, r2) ==
    RangeLen(overlap(r1.start, r1.stop - 1, r2.start, r2.stop - 1)) # 0

\* The test of the code.
MergeCondition(r1, r2) ==
    \/ RangeLen(overlap(r1.start, r1.stop - 1, r2.start, r2.stop - 1)) # 0
    \/ r1.stop = r2.start

MergeStep(u, r) ==
    IF Len(u) = 0 THEN Append(u, r)
    ELSE LET r1 == u[Len(u)]
             r2 == r
         IN  IF MergeCondition(r1, r2)
             THEN Append(SubSeq(u, 1, Len(u) - 1),
                         Range(Min(r1.start, r2.start), Max(r1.stop, r2.stop)))
             ELSE Append(u, r)

RECURSIVE MergeLoop(_, _)
MergeLoop(u, s) ==
    IF s = <<>> THEN u
    ELSE MergeLoop(MergeStep(u, Head(s)), Tail(s))

_merge_ranges(rs) == MergeLoop(<<>>, SortedByKey(rs))


EmptyDict == <<>>

\* Family.__init__() of every family of F.
FamilyCreated(F) ==
    /\ regions = [f \in F |-> EmptyDict]
    /\ signatures = [f \in F |-> EmptyDict]
    /\ fhashes = [f \in F |-> EmptyDict]
    /\ finalised = [f \in F |-> FALSE]
    /\ ret = [op |-> "__init__"]

FamilyIdle == FamilyCreated({})

\* No thread reads Hashes.hashes.
LazyIdle ==
    /\ _hashes = <<>>
    /\ dicts = <<>>
    /\ pc = <<>>
    /\ at = <<>>
    /\ got = <<>>
    /\ iterations = 0

\* No mapping exists.
HeapIdle ==
    /\ heap = <<>>
    /\ refs = <<>>

\* No pure function has been called.
CallIdle ==
    /\ args = <<>>
    /\ returned = <<>>

MergeIdle ==
    /\ ranges = <<>>
    /\ merged = <<>>
    /\ remerged = <<>>
    /\ mergeCalls = 0

(***************************************************************************)
(* sifter.py.  Numbers: a score and a score threshold are integers, in     *)
(* units of 1/MaxScore; sizes are integers; a quotient (a relative size, a *)
(* normalised score) is the pair <<numerator, denominator>> with a         *)
(* positive denominator, and quotients are compared by cross               *)
(* multiplication.  None is the empty tuple and a given threshold x is     *)
(* <<x>>.                                                                  *)
(***************************************************************************)
SIFTS == "sifts"
SEARCH == "search"
ID == "id"
FAMILY_HASH_SCORES == "family_hash_scores"
NORMALISED_FAMILY_HASH_SCORES == "normalised_family_hash_scores"
CLANS == "clans"
ABSOLUTE_SIZES == "absolute_sizes"
RELATIVE_SIZES == "relative_sizes"
SEARCH_SIZE == "search_size"

None == <<>>
Some(x) == <<x>>

\* a < b on quotients
QLess(a, b) == a[1] * b[2] < b[1] * a[2]

\* d[k] = v on a dict
Put(d, k, v) == [x \in DOMAIN d \cup {k} |-> IF x = k THEN v ELSE d[x]]

\* The values of a dict, as a set.
Values(d) == {d[k] : k \in DOMAIN d}

\* The one list object that package() creates; every copy.copy of the
\* packet holds a reference to it, and its contents are the variable sifts.
SiftsList == "the list of package()"

\* sifter.py: package(search, id_)
package(search, id_) ==
    [x \in {SEARCH, ID, SIFTS} |->
        IF x = SEARCH THEN search ELSE IF x = ID THEN id_ ELSE SiftsList]

(***************************************************************************)
(* The pipeline that is driven.  The source fixes no pipeline: stages are  *)
(* wired by whoever constructs them.  This one has every routing stage     *)
(* behind the sink that produces the fields it reads, and a Terminator     *)
(* behind every other sink.                                                *)
(***************************************************************************)
HashStage == "HashSifter"
ClanStage == "ClanSifter"
SizeStage == "SizeSifter"
NewStage == "NewFamilySifter"

RoutingStages == {HashStage, ClanStage, SizeStage, NewStage}

Terminators == {"T_low", "T_same", "T_different", "T_smaller", "T_new", "T_other"}

Sinks ==
    [s \in RoutingStages |->
        CASE s = HashStage -> [low_sink |-> "T_low", high_sink |-> SizeStage,
                               other_sink |-> ClanStage]
          [] s = ClanStage -> [same_sink |-> "T_same",
                               different_sink |-> "T_different"]
          [] s = SizeStage -> [bigger_sink |-> NewStage,
                               smaller_sink |-> "T_smaller"]
          [] s = NewStage  -> [new_sink |-> "T_new", other_sink |-> "T_other"]]

\* The catalog entries, and the clans an entry can belong to.
PfamFamilies == {"PF1", "PF2"}
PfamClans == {"CL1", "CL2"}
NoClan == "None"

\* Sifter.sift, lines 32-33: the copy is shallow, so the append lands in
\* the list the received packet holds too.
SifterSift(stage) == Append(sifts, stage)

\* Sifter._distribute_results(sink=data), called by stage: the call that
\* is due next, with the dict as it is at the time of the call.
Call(stage, sink, data) == [stage |-> Sinks[stage][sink], data |-> data]

\* The history of the dispatches: who called which sink with what.
Dispatched(stage, sink, data) == [stage |-> stage, sink |-> sink, data |-> data]

(***************************************************************************)
(* HashSifter.sift, lines 66-72: the sink chosen for the scores of a       *)
(* catalog that is not empty.                                              *)
(***************************************************************************)
\* A variant that takes low_sink as soon as any score is <= low_threshold.
HashSinkAnyBelow(scores, low_threshold, high_threshold) ==
    IF \E f \in DOMAIN scores : scores[f] <= low_threshold
    THEN "low_sink"
    ELSE IF /\ \E f \in DOMAIN scores : scores[f] >= high_threshold
            /\ Cardinality({f \in DOMAIN scores : scores[f] >= low_threshold}) = 1
    THEN "high_sink"
    ELSE "other_sink"

\* The sink of the code.
HashSink(scores, low_threshold, high_threshold) ==
    IF \A f \in DOMAIN scores : scores[f] <= low_threshold
    THEN "low_sink"
    ELSE IF /\ \E f \in DOMAIN scores : scores[f] >= high_threshold
            /\ Cardinality({f \in DOMAIN scores : scores[f] >= low_threshold}) = 1
    THEN "high_sink"
    ELSE "other_sink"

\* sift_method(data[SEARCH], self.hashes): a score for every catalog entry.
\* The query is held as the scores the estimate gives it and its size.
sift_method(search, hashes) == [f \in hashes |-> search.scores[f]]

Top == Head(stack)

HashSifterSift ==
    /\ stack # <<>>
    /\ Top.stage = HashStage
    /\ LET data == Top.data
           scores == sift_method(data[SEARCH], config.hashes)
           out_data == Put(data, FAMILY_HASH_SCORES,
                           [f \in {g \in DOMAIN scores : scores[g] > 0} |-> scores[f]])
           sink == HashSink(scores, config.low_threshold, config.high_threshold)
       IN  /\ sifts' = SifterSift(HashStage)
           /\ IF DOMAIN scores = {}
              THEN \* reduce() of an empty sequence: TypeError
                   /\ raised' = TRUE
                   /\ stack' = <<>>
                   /\ UNCHANGED calls
              ELSE /\ calls' = Append(calls, Dispatched(HashStage, sink, out_data))
                   /\ stack' = <<Call(HashStage, sink, out_data)>> \o Tail(stack)
                   /\ UNCHANGED raised
    /\ UNCHANGED <<config, results, mergeVars, familyVars, callVars, lazyVars, heapVars>>

(***************************************************************************)
(* Terminator.sift                                                         *)
(***************************************************************************)
TerminatorSift ==
    /\ stack # <<>>
    /\ Top.stage \in Terminators
    /\ LET data == Top.data
           out_data == data
       IN  /\ sifts' = SifterSift(Top.stage)
           /\ results' = [results EXCEPT
                             ![Top.stage] = Put(@, data[ID], out_data)]
    /\ stack' = Tail(stack)
    /\ UNCHANGED <<config, calls, raised, mergeVars, familyVars, callVars, lazyVars, heapVars>>

(***************************************************************************)
(* ClanSifter.sift.  ClanFirstSinks is the dispatch of lines 106-107,      *)
(* which does not return from sift; ClanSecondSink is the one of lines     *)
(* 112-115, where `None not in clans' is a test of the dict's keys.        *)
(***************************************************************************)
ClanFirstSinks(threshold_families) ==
    IF Cardinality(threshold_families) <= 1 THEN <<"same_sink">> ELSE <<>>

ClanSecondSink(clans) ==
    IF Cardinality(Values(clans)) = 1 /\ NoClan \notin DOMAIN clans
    THEN "same_sink"
    ELSE "different_sink"

ClanSifterSift ==
    /\ stack # <<>>
    /\ Top.stage = ClanStage
    /\ LET data == Top.data
           threshold_families ==
               {f \in DOMAIN data[FAMILY_HASH_SCORES] :
                    data[FAMILY_HASH_SCORES][f] > config.clan_threshold}
           first == ClanFirstSinks(threshold_families)
       IN  \* Clans().clan_for_family(f): the clan of f in the database, or None
           \E clans \in [threshold_families -> PfamClans \cup {NoClan}] :
              LET out_data == Put(data, CLANS, clans)
                  second == ClanSecondSink(clans)
              IN  /\ calls' = calls
                         \o [i \in 1..Len(first) |->
                                Dispatched(ClanStage, first[i], data)]
                         \o <<Dispatched(ClanStage, second, out_data)>>
                  /\ stack' = [i \in 1..Len(first) |->
                                  Call(ClanStage, first[i], data)]
                         \o <<Call(ClanStage, second, out_data)>>
                         \o Tail(stack)
    /\ sifts' = SifterSift(ClanStage)
    /\ UNCHANGED <<config, results, raised, mergeVars, familyVars, callVars, lazyVars, heapVars>>

(***************************************************************************)
(* SizeSifter.sift.  SizeSink is lines 141-151: `bigger |= False' is       *)
(* bigger = bigger | False.                                                *)
(***************************************************************************)
SizeSink(abs_sizes, rel_sizes, abs_threshold, rel_threshold) ==
    LET bigger0 == TRUE
        bigger1 == IF /\ abs_threshold # None
                      /\ \E f \in DOMAIN abs_sizes :
                            abs_sizes[f] < abs_threshold[1]
                   THEN bigger0 \/ FALSE
                   ELSE bigger0
        bigger2 == IF /\ rel_threshold # None
                      /\ \E f \in DOMAIN rel_sizes :
                            QLess(rel_sizes[f], rel_threshold[1])
                   THEN bigger1 \/ FALSE
                   ELSE bigger1
    IN  IF bigger2 THEN "bigger_sink" ELSE "smaller_sink"

\* self.sizes.size_method(data[SEARCH]): the size of the query, which is
\* held with the query.
size_method(search) == search.size

SizeSifterSift ==
    /\ stack # <<>>
    /\ Top.stage = SizeStage
    /\ LET data == Top.data
           scores == data[FAMILY_HASH_SCORES]
       IN  \* self.sizes.sizes: the size of every catalog entry that matched
           \E sizes \in [DOMAIN scores -> 1..MaxSize] :
              LET abs_sizes == [f \in DOMAIN scores |-> sizes[f]]
                  search_size == size_method(data[SEARCH])
                  rel_sizes == [f \in DOMAIN abs_sizes |->
                                   <<search_size, abs_sizes[f]>>]
                  normalised_scores ==
                      [f \in {g \in DOMAIN scores : scores[g] > 0} |->
                          <<scores[f] * sizes[f], search_size>>]
                  out_data ==
                      Put(Put(Put(Put(data,
                          ABSOLUTE_SIZES, abs_sizes),
                          SEARCH_SIZE, search_size),
                          RELATIVE_SIZES, rel_sizes),
                          NORMALISED_FAMILY_HASH_SCORES, normalised_scores)
                  sink == SizeSink(abs_sizes, rel_sizes,
                                   config.size_abs_threshold,
                                   config.size_rel_threshold)
              IN  /\ calls' = Append(calls, Dispatched(SizeStage, sink, out_data))
                  /\ stack' = <<Call(SizeStage, sink, out_data)>> \o Tail(stack)
    /\ sifts' = SifterSift(SizeStage)
    /\ UNCHANGED <<config, results, raised, mergeVars, familyVars, callVars, lazyVars, heapVars>>

(***************************************************************************)
(* NewFamilySifter.sift, lines 165-170.                                    *)
(***************************************************************************)
\* A variant that rejects a normalised score equal to the threshold too.
NewFamilySinkAtLeast(search_size, normalised_scores, abs_threshold, rel_threshold) ==
    IF search_size < abs_threshold
    THEN "other_sink"
    ELSE IF \E f \in DOMAIN normalised_scores :
                ~QLess(normalised_scores[f], rel_threshold)
    THEN "other_sink"
    ELSE "new_sink"

\* The sink of the code.
NewFamilySink(search_size, normalised_scores, abs_threshold, rel_threshold) ==
    IF search_size < abs_threshold
    THEN "other_sink"
    ELSE IF \E f \in DOMAIN normalised_scores :
                QLess(rel_threshold, normalised_scores[f])
    THEN "other_sink"
    ELSE "new_sink"

NewFamilySifterSift ==
    /\ stack # <<>>
    /\ Top.stage = NewStage
    /\ LET data == Top.data
           out_data == data
           search_size == data[SEARCH_SIZE]
           normalised_scores == data[NORMALISED_FAMILY_HASH_SCORES]
           sink == NewFamilySink(search_size, normalised_scores,
                                 config.new_abs_threshold,
                                 config.new_rel_threshold)
       IN  /\ calls' = Append(calls, Dispatched(NewStage, sink, out_data))
           /\ stack' = <<Call(NewStage, sink, out_data)>> \o Tail(stack)
    /\ sifts' = SifterSift(NewStage)
    /\ UNCHANGED <<config, results, raised, mergeVars, familyVars, callVars, lazyVars, heapVars>>

(***************************************************************************)
(* Spec: the stages are constructed, then one query is packaged and handed *)
(* to the entry stage, and the calls run in the order Python makes them.   *)
(***************************************************************************)
Scores == 0..MaxScore

Quotients == {<<n, d>> : n \in 1..MaxSize, d \in 1..MaxSize}

\* The thresholds a stage behind HashSifter has unless it is the stage
\* whose thresholds are varied.
DefaultThresholds ==
    [clan_threshold |-> 0,
     size_abs_threshold |-> Some(MaxSize),
     size_rel_threshold |-> None,
     new_abs_threshold |-> 1,
     new_rel_threshold |-> <<1, 1>>]

ClanDefault(c) == c.clan_threshold = DefaultThresholds.clan_threshold

SizeDefault(c) ==
    /\ c.size_abs_threshold = DefaultThresholds.size_abs_threshold
    /\ c.size_rel_threshold = DefaultThresholds.size_rel_threshold

NewDefault(c) ==
    /\ c.new_abs_threshold = DefaultThresholds.new_abs_threshold
    /\ c.new_rel_threshold = DefaultThresholds.new_rel_threshold

\* The constructors: HashSifter(hashes, low_threshold, high_threshold, ..),
\* ClanSifter(threshold, ..), SizeSifter(sizes, .., abs_threshold,
\* rel_threshold), which raises ValueError when both are None, and
\* NewFamilySifter(.., abs_threshold, rel_threshold).  A packet visits
\* one path only, so the pipelines are those in which at most one of the
\* three stages behind HashSifter departs from DefaultThresholds.
Configs ==
    {c \in [hashes : SUBSET PfamFamilies,
            low_threshold : Scores,
            high_threshold : Scores,
            clan_threshold : Scores,
            size_abs_threshold : {None} \cup {Some(x) : x \in 1..MaxSize},
            size_rel_threshold : {None} \cup {Some(q) : q \in Quotients},
            new_abs_threshold : 1..MaxSize,
            new_rel_threshold : Quotients] :
        /\ ~(c.size_abs_threshold = None /\ c.size_rel_threshold = None)
        /\ \/ ClanDefault(c) /\ SizeDefault(c)
           \/ ClanDefault(c) /\ NewDefault(c)
           \/ SizeDefault(c) /\ NewDefault(c)}

Queries(hashes) ==
    {[scores |-> sc, size |-> n] : sc \in [hashes -> Scores], n \in 1..MaxSize}

QueryId == "q1"

NoResults == [t \in Terminators |-> <<>>]

SifterIdle ==
    /\ config = <<>>
    /\ stack = <<>>
    /\ sifts = <<>>
    /\ results = NoResults
    /\ calls = <<>>
    /\ raised = FALSE

Init ==
    /\ config \in Configs
    /\ stack = <<>>
    /\ sifts = <<>>
    /\ results = NoResults
    /\ calls = <<>>
    /\ raised = FALSE
    /\ MergeIdle
    /\ FamilyIdle
    /\ CallIdle
    /\ LazyIdle
    /\ HeapIdle

\* entry.sift(package(search, id_)) is called.
Submit ==
    /\ stack = <<>>
    /\ sifts = <<>>
    /\ ~raised
    /\ \E search \in Queries(config.hashes) :
          stack' = <<[stage |-> HashStage, data |-> package(search, QueryId)]>>
    /\ UNCHANGED <<config, sifts, results, calls, raised, mergeVars, familyVars, callVars, lazyVars, heapVars>>

Next ==
    \/ Submit
    \/ HashSifterSift
    \/ ClanSifterSift
    \/ SizeSifterSift
    \/ NewFamilySifterSift
    \/ TerminatorSift

Spec == Init /\ [][Next]_vars

(***************************************************************************)
(* Family.py: class Family.  regions[f] is f._regions, a dict from the     *)
(* accessions that have been given a region to the list of their           *)
(* (start, end) pairs, in the order they were added; signatures[f] and     *)
(* fhashes[f] are the dicts f._signatures and f._fhashes, keyed by the     *)
(* Hashes object.                                                          *)
(***************************************************************************)
Proteins == {"a1", "a2"}

Residues == 1..MaxResidue

\* The regions that are added: start <= end.
Regions == {<<start, end>> : start \in Residues, end \in Residues} \
           {<<start, end>> \in Residues \X Residues : start > end}

\* The number of regions in the lists of d that the keys name.
RECURSIVE SumLens(_, _)
SumLens(d, keys) ==
    IF keys = {} THEN 0
    ELSE LET k == CHOOSE x \in keys : TRUE
         IN  Len(d[k]) + SumLens(d, keys \ {k})

\* The number of regions the families of F hold.
RECURSIVE RegionsHeld(_)
RegionsHeld(F) ==
    IF F = {} THEN 0
    ELSE LET f == CHOOSE x \in F : TRUE
         IN  SumLens(regions[f], DOMAIN regions[f]) + RegionsHeld(F \ {f})

TotalRegions == RegionsHeld(DOMAIN regions)

\* Family.proteins()
proteins(f) == DOMAIN regions[f]

(***************************************************************************)
(* relationships/minhash.py over the accessions of the model.  The hash    *)
(* of an accession is its CRC32 divided by 10^6 (the CRC32 itself exceeds  *)
(* the integers of the checker); str compares as ElementRank does.         *)
(***************************************************************************)
\* The elements that are hashed: the accessions of Proteins and one more.
Elements == Proteins \cup {"a3"}

_crc32_hash ==
    [e \in Elements |-> IF e = "a1" THEN 1826 ELSE IF e = "a2" THEN 4125 ELSE 2196]

ElementRank ==
    [e \in Elements |-> IF e = "a1" THEN 1 ELSE IF e = "a2" THEN 2 ELSE 3]

\* (h, e) < (h', e') on tuples
PairLess(p, q) ==
    \/ p[1] < q[1]
    \/ p[1] = q[1] /\ ElementRank[p[2]] < ElementRank[q[2]]

RECURSIVE InsertPair(_, _)
InsertPair(p, s) ==
    IF s = <<>> THEN <<p>>
    ELSE IF ~PairLess(p, s[Len(s)]) THEN Append(s, p)
    ELSE Append(InsertPair(p, SubSeq(s, 1, Len(s) - 1)), s[Len(s)])

\* sorted(pairs) on a list of (hash, element)
RECURSIVE SortedPairs(_)
SortedPairs(s) ==
    IF s = <<>> THEN <<>>
    ELSE InsertPair(s[Len(s)], SortedPairs(SubSeq(s, 1, Len(s) - 1)))

\* l[:n], n >= 0
Take(l, n) == SubSeq(l, 1, Min(n, Len(l)))

\* minhash.set_hashes(s)
set_hashes(s, hash_function) == {<<hash_function[e], e>> : e \in s}

\* minhash.signature(s, n): set(sorted((hash_function(e), e) for e in s)[:n]),
\* s an iterable: the list of its elements in the order of the iteration,
\* with their repetitions.
signature(s, n, hash_function) ==
    LET pairs == [i \in 1..Len(s) |-> <<hash_function[s[i]], s[i]>>]
    IN  {Take(SortedPairs(pairs), n)[i] : i \in 1..Min(n, Len(s))}

(***************************************************************************)
(* relationships/jaccard.py.  The result of a division is the quotient     *)
(* <<numerator, denominator>>; a division by zero raises.  The number 0    *)
(* that _zero_on_divide_by_zero returns is the quotient <<0, 1>>.          *)
(***************************************************************************)
ZeroDivisionError == [raised |-> TRUE]

Returns(q) == [raised |-> FALSE, value |-> q]

\* a / b
Divide(a, b) == IF b = 0 THEN ZeroDivisionError ELSE Returns(<<a, b>>)

\* a == b on quotients
QEq(a, b) == a[1] * b[2] = b[1] * a[2]

\* A variant that lets the exception pass.
_reraise_divide_by_zero(result) == result

\* The decorator of the code.
_zero_on_divide_by_zero(result) ==
    IF result.raised THEN Returns(<<0, 1>>) ELSE result

\* A variant that divides by the sum of the sizes.
jaccard_over_sum(s, t) ==
    _zero_on_divide_by_zero(
        Divide(Cardinality(s \cap t), Cardinality(s) + Cardinality(t)))

\* The function of the code.
jaccard(s, t) ==
    _zero_on_divide_by_zero(Divide(Cardinality(s \cap t), Cardinality(s \cup t)))

\* A variant that divides by the size of the second argument.
jaccard_containment_of_second(s, t) ==
    _zero_on_divide_by_zero(Divide(Cardinality(s \cap t), Cardinality(t)))

\* A variant that divides by the size of the union.
jaccard_containment_of_union(s, t) ==
    _zero_on_divide_by_zero(Divide(Cardinality(s \cap t), Cardinality(s \cup t)))

\* The function of the code.
jaccard_containment(s, t) ==
    _zero_on_divide_by_zero(Divide(Cardinality(s \cap t), Cardinality(s)))

(***************************************************************************)
(* relationships/minhash.py: the estimates from signatures.                *)
(***************************************************************************)
\* reduce(operator.or_, sets), sets a list of one set or more
RECURSIVE UnionOf(_)
UnionOf(sets) ==
    IF Len(sets) = 1 THEN sets[1] ELSE sets[1] \cup UnionOf(Tail(sets))

\* reduce(operator.and_, sets)
RECURSIVE IntersectionOf(_)
IntersectionOf(sets) ==
    IF Len(sets) = 1 THEN sets[1] ELSE sets[1] \cap IntersectionOf(Tail(sets))

\* A variant that does not truncate.
union_signature_untruncated(sets, n) == UnionOf(sets)

\* union_signature(*sets, n): set(sorted(union)[:n])
union_signature(sets, n) ==
    LET sorted == SortedPairs(SetToSeq(UnionOf(sets)))
    IN  SeqToSet(Take(sorted, n))

intersection_signature(sets) == IntersectionOf(sets)

\* A variant that divides by the signature length.
minhash_over_n(s, t, n) ==
    LET X == union_signature(<<s, t>>, n)
        Y == intersection_signature(<<X, s, t>>)
    IN  _zero_on_divide_by_zero(Divide(Cardinality(Y), n))

\* The function of the code.
minhash(s, t, n) ==
    LET X == union_signature(<<s, t>>, n)
        Y == intersection_signature(<<X, s, t>>)
    IN  _zero_on_divide_by_zero(Divide(Cardinality(Y), Cardinality(X)))

minhash_containment(s, t) ==
    _zero_on_divide_by_zero(Divide(Cardinality(s \cap t), Cardinality(s)))

(***************************************************************************)
(* relationships/pfam.py: two Hashes objects, which differ in n.           *)
(***************************************************************************)
Repos == {"R1", "R2"}

RepoN == [R \in Repos |-> IF R = "R1" THEN 1 ELSE 2]

\* Hashes.signature(family)
HashesSignature(R, f) == signature(SetToSeq(proteins(f)), RepoN[R], _crc32_hash)

\* Hashes.full_hash(family)
HashesFullHash(R, f) == set_hashes(proteins(f), _crc32_hash)

(***************************************************************************)
(* Family.add_region, lines 47-51.                                         *)
(***************************************************************************)
\* A variant without the test of _finalised.
add_region_unguarded(f, acc, start, end) ==
    /\ regions' = [regions EXCEPT ![f] =
           Put(@, acc, Append(IF acc \in DOMAIN @ THEN @[acc] ELSE <<>>,
                              <<start, end>>))]
    /\ signatures' = [signatures EXCEPT ![f] = EmptyDict]
    /\ ret' = [op |-> "add_region", family |-> f, raised |-> FALSE]
    /\ UNCHANGED <<fhashes, finalised>>

\* The method of the code.
add_region(f, acc, start, end) ==
    IF ~finalised[f]
    THEN /\ regions' = [regions EXCEPT ![f] =
                Put(@, acc, Append(IF acc \in DOMAIN @ THEN @[acc] ELSE <<>>,
                                   <<start, end>>))]
         /\ signatures' = [signatures EXCEPT ![f] = EmptyDict]
         /\ ret' = [op |-> "add_region", family |-> f, raised |-> FALSE]
         /\ UNCHANGED <<fhashes, finalised>>
    ELSE \* raise RuntimeError()
         /\ ret' = [op |-> "add_region", family |-> f, raised |-> TRUE]
         /\ UNCHANGED <<regions, signatures, fhashes, finalised>>

\* f.add_region(acc, start, end) with a region of RS
AddRegionOf(RS) ==
    /\ LET room == TotalRegions < MaxRegions
       IN  \E f \in DOMAIN regions :
              /\ finalised[f] \/ room
              /\ \E acc \in Proteins, r \in RS : add_region(f, acc, r[1], r[2])
    /\ UNCHANGED <<mergeVars, sifterVars, callVars, lazyVars, heapVars>>

\* union, overlap, residues_covered and sizes change no family: whatever
\* can follow a call of one of them can follow the state before the call,
\* and the behaviour ends with the call.  It ends with the construction of
\* a clan as well.
Queried ==
    ret.op \in {"union", "overlap", "residues_covered", "sizes", "from_accession"}

AddRegion ==
    /\ ~Queried
    /\ AddRegionOf(Regions)

\* Hashes reads the accessions of a family only: where nothing else reads
\* the regions, every region added is the whole protein.
AddWholeProtein == AddRegionOf({<<1, MaxResidue>>})

\* Family.finalise
Finalise ==
    /\ \E f \in DOMAIN regions :
          /\ finalised' = [finalised EXCEPT ![f] = TRUE]
          /\ ret' = [op |-> "finalise", family |-> f]
    /\ UNCHANGED <<regions, signatures, fhashes, mergeVars, sifterVars, callVars, lazyVars, heapVars>>

\* Family.signature(hashes), lines 131-136
CallSignature ==
    /\ \E f \in DOMAIN regions, R \in Repos :
          LET sig == IF R \in DOMAIN signatures[f]
                     THEN signatures[f][R]
                     ELSE HashesSignature(R, f)
          IN  /\ signatures' = [signatures EXCEPT ![f] = Put(@, R, sig)]
              /\ ret' = [op |-> "signature", family |-> f, hashes |-> R,
                         value |-> sig]
    /\ UNCHANGED <<regions, fhashes, finalised, mergeVars, sifterVars, callVars, lazyVars, heapVars>>

\* Family.full_hash(hashes), lines 139-144
CallFullHash ==
    /\ \E f \in DOMAIN regions, R \in Repos :
          LET fhash == IF R \in DOMAIN fhashes[f]
                       THEN fhashes[f][R]
                       ELSE HashesFullHash(R, f)
          IN  /\ fhashes' = [fhashes EXCEPT ![f] = Put(@, R, fhash)]
              /\ ret' = [op |-> "full_hash", family |-> f, hashes |-> R,
                         value |-> fhash]
    /\ UNCHANGED <<regions, signatures, finalised, mergeVars, sifterVars, callVars, lazyVars, heapVars>>

(***************************************************************************)
(* Family.union, lines 236-245.                                            *)
(***************************************************************************)
\* r._regions.get(protein), as a set: None becomes set()
RegionSet(f, protein) ==
    IF protein \in DOMAIN regions[f] THEN SeqToSet(regions[f][protein]) ELSE {}

\* A variant that keeps the proteins of the receiver only.
union_of_receiver_proteins(f, others) ==
    LET families == <<f>> \o others
    IN  [protein \in proteins(f) |->
            LET rs0 == UNION {RegionSet(families[i], protein) :
                                 i \in 1..Len(families)}
                rs == {Range(r[1], r[2] + 1) : r \in rs0}
            IN  _merge_ranges(SetToSeq(rs))]

\* The method of the code.
union(f, others) ==
    LET families == <<f>> \o others
        prots == UNION {proteins(families[i]) : i \in 1..Len(families)}
    IN  [protein \in prots |->
            LET rs0 == UNION {RegionSet(families[i], protein) :
                                 i \in 1..Len(families)}
                rs == {Range(r[1], r[2] + 1) : r \in rs0}
            IN  _merge_ranges(SetToSeq(rs))]

\* The argument lists of a call on f: up to MaxOthers of the other families.
Others(f) ==
    {s \in SeqsUpTo(DOMAIN regions \ {f}, MaxOthers) :
        \A i, j \in 1..Len(s) : i # j => s[i] # s[j]}

CallUnion ==
    /\ ~Queried
    /\ \E f \in DOMAIN regions : \E others \in Others(f) :
          ret' = [op |-> "union", family |-> f, others |-> others,
                  value |-> union(f, others)]
    /\ UNCHANGED <<regions, signatures, fhashes, finalised, mergeVars, sifterVars, callVars, lazyVars, heapVars>>

(***************************************************************************)
(* Family.overlap(other), lines 196-217.  The regions of a protein are     *)
(* sorted as tuples; the inner loop leaves at the first region of the      *)
(* second list that starts behind the end of the region of the first.      *)
(***************************************************************************)
RegionLeq(p, q) == p[1] < q[1] \/ (p[1] = q[1] /\ p[2] <= q[2])

RECURSIVE InsertRegion(_, _)
InsertRegion(r, s) ==
    IF s = <<>> THEN <<r>>
    ELSE IF RegionLeq(s[Len(s)], r) THEN Append(s, r)
    ELSE Append(InsertRegion(r, SubSeq(s, 1, Len(s) - 1)), s[Len(s)])

\* sorted(r) on a list of (start, end)
RECURSIVE SortedRegions(_)
SortedRegions(s) ==
    IF s = <<>> THEN <<>>
    ELSE InsertRegion(s[Len(s)], SortedRegions(SubSeq(s, 1, Len(s) - 1)))

\* A variant that leaves the loop at a region that starts at the end too.
LeavesInnerLoopAtEnd(s2, e1) == s2 >= e1

\* if s2 > e1: break
LeavesInnerLoop(s2, e1) == s2 > e1

\* for s2, e2 in sorted_r2: the ranges added to overlaps[acc1] for (s1, e1)
RECURSIVE InnerLoop(_, _, _)
InnerLoop(s1, e1, sorted_r2) ==
    IF sorted_r2 = <<>> THEN {}
    ELSE LET s2 == Head(sorted_r2)[1]
             e2 == Head(sorted_r2)[2]
             o == overlap(s1, e1, s2, e2)
         IN  IF LeavesInnerLoop(s2, e1) THEN {}
             ELSE (IF RangeLen(o) # 0 THEN {o} ELSE {})
                     \cup InnerLoop(s1, e1, Tail(sorted_r2))

\* for s1, e1 in sorted_r1
OuterLoop(sorted_r1, sorted_r2) ==
    UNION {InnerLoop(sorted_r1[i][1], sorted_r1[i][2], sorted_r2) :
              i \in 1..Len(sorted_r1)}

Family_overlap(f, other) ==
    LET smaller == Cardinality(proteins(f)) < Cardinality(proteins(other))
        f1 == IF smaller THEN f ELSE other
        f2 == IF smaller THEN other ELSE f
        intersection == proteins(f1) \cap proteins(f2)
    IN  [acc1 \in intersection |->
            _merge_ranges(SetToSeq(
                OuterLoop(SortedRegions(regions[f1][acc1]),
                          SortedRegions(regions[f2][acc1]))))]

CallOverlap ==
    /\ ~Queried
    /\ \E f \in DOMAIN regions, other \in DOMAIN regions :
          ret' = [op |-> "overlap", family |-> f, other |-> other,
                  value |-> Family_overlap(f, other)]
    /\ UNCHANGED <<regions, signatures, fhashes, finalised, mergeVars, sifterVars, callVars, lazyVars, heapVars>>

(***************************************************************************)
(* Family.residues_covered, lines 258-260: the ranges of every protein, in *)
(* the order the regions were added and with their repetitions, are merged *)
(* and the lengths of the merged ranges are summed.                        *)
(***************************************************************************)
RECURSIVE SumRangeLens(_)
SumRangeLens(rs) ==
    IF rs = <<>> THEN 0 ELSE RangeLen(Head(rs)) + SumRangeLens(Tail(rs))

\* range(s, e + 1) for s, e in rs
RangesOf(rs) == [i \in 1..Len(rs) |-> Range(rs[i][1], rs[i][2] + 1)]

RECURSIVE SumOverProteins(_, _, _)
SumOverProteins(f, keys, merges) ==
    IF keys = {} THEN 0
    ELSE LET k == CHOOSE x \in keys : TRUE
             rs == RangesOf(regions[f][k])
         IN  SumRangeLens(IF merges THEN _merge_ranges(rs) ELSE rs)
                + SumOverProteins(f, keys \ {k}, merges)

\* A variant that sums the lengths of the regions as they were added.
residues_covered_unmerged(f) == SumOverProteins(f, proteins(f), FALSE)

\* The method of the code.
residues_covered(f) == SumOverProteins(f, proteins(f), TRUE)

CallResiduesCovered ==
    /\ ~Queried
    /\ \E f \in DOMAIN regions :
          ret' = [op |-> "residues_covered", family |-> f,
                  value |-> residues_covered(f)]
    /\ UNCHANGED <<regions, signatures, fhashes, finalised, mergeVars, sifterVars, callVars, lazyVars, heapVars>>

(***************************************************************************)
(* ResidueSizes.sizes, lines 297-303: the size of a catalog entry is the   *)
(* sum of e - s + 1 over the regions (protein, s, e) the catalog holds for *)
(* it.  The regions of the entry are those of a family.                    *)
(***************************************************************************)
\* The catalog yields the regions of an entry as a set of (protein, s, e).
FamiliesRegions(f) ==
    UNION {{<<k, r[1], r[2]>> : r \in RegionSet(f, k)} : k \in proteins(f)}

\* sum(e - s + 1 for _, s, e in regions)
RECURSIVE ResidueSizes_sizes(_)
ResidueSizes_sizes(rs) ==
    IF rs = {} THEN 0
    ELSE LET r == CHOOSE x \in rs : TRUE
         IN  (r[3] - r[2] + 1) + ResidueSizes_sizes(rs \ {r})

\* ResidueSizes.size_method: the size of a query family
ResidueSizes_size_method(f) == residues_covered(f)

CallResidueSizes ==
    /\ ~Queried
    /\ \E f \in DOMAIN regions :
          ret' = [op |-> "sizes", family |-> f,
                  value |-> ResidueSizes_sizes(FamiliesRegions(f)),
                  query |-> ResidueSizes_size_method(f)]
    /\ UNCHANGED <<regions, signatures, fhashes, finalised, mergeVars, sifterVars, callVars, lazyVars, heapVars>>

(***************************************************************************)
(* FamilySpec: one Family, constructed empty, is given regions, asked for  *)
(* its signature and full hash set by two Hashes objects, and finalised.   *)
(* UnionSpec: three Families are given regions and united.                 *)
(***************************************************************************)
FamilyInit ==
    /\ FamilyCreated({"A"})
    /\ MergeIdle
    /\ SifterIdle
    /\ CallIdle
    /\ LazyIdle
    /\ HeapIdle

FamilyNext == AddWholeProtein \/ Finalise \/ CallSignature \/ CallFullHash

FamilySpec == FamilyInit /\ [][FamilyNext]_vars

UnionInit ==
    /\ FamilyCreated({"A", "B", "C"})
    /\ MergeIdle
    /\ SifterIdle
    /\ CallIdle
    /\ LazyIdle
    /\ HeapIdle

UnionNext == AddRegion \/ CallUnion

UnionSpec == UnionInit /\ [][UnionNext]_vars

\* OverlapSpec: two Families are given regions; then one is asked for its
\* overlap with a family, or for the residues it covers.
OverlapInit ==
    /\ FamilyCreated({"A", "B"})
    /\ MergeIdle
    /\ SifterIdle
    /\ CallIdle
    /\ LazyIdle
    /\ HeapIdle

OverlapNext ==
    AddRegion \/ CallOverlap \/ CallResiduesCovered \/ CallResidueSizes

OverlapSpec == OverlapInit /\ [][OverlapNext]_vars

(***************************************************************************)
(* PfamClan.from_accession, pfam_db.py lines 292-310.  The member families *)
(* are PfamFamily instances, whose regions _load has added; the clan is a  *)
(* new Family whose _load takes the union of the members when there is     *)
(* more than one, and stores (v.start, v.stop) of every range of it.       *)
(***************************************************************************)
\* Clans().families_in_clan(accession): the members of a clan, in an order
MemberLists ==
    {s \in SeqsUpTo(PfamFamilies, Cardinality(PfamFamilies)) :
        /\ s # <<>>
        /\ \A i, j \in 1..Len(s) : i # j => s[i] # s[j]}

\* PfamClan._load: the regions of the clan
PfamClan_load(members) ==
    IF Len(members) > 1
    THEN LET clan_regions == union(members[1], Tail(members))
         IN  [k \in DOMAIN clan_regions |->
                 [i \in 1..Len(clan_regions[k]) |->
                     <<clan_regions[k][i].start, clan_regions[k][i].stop>>]]
    ELSE EmptyDict

PfamClanFromAccession ==
    /\ ~Queried
    /\ \E acc \in PfamClans, members \in MemberLists :
          LET created(old, value) ==
                  [f \in DOMAIN old \cup {acc} |->
                      IF f = acc THEN value ELSE old[f]]
          IN  /\ regions' = created(regions, PfamClan_load(members))
              /\ signatures' = created(signatures, EmptyDict)
              /\ fhashes' = created(fhashes, EmptyDict)
              \* PfamFamily.from_accession and PfamClan.from_accession finalise
              /\ finalised' = [f \in DOMAIN finalised \cup {acc} |->
                                  \/ f = acc
                                  \/ f \in SeqToSet(members)
                                  \/ finalised[f]]
              /\ ret' = [op |-> "from_accession", family |-> acc,
                         members |-> members]
    /\ UNCHANGED <<mergeVars, sifterVars, callVars, lazyVars, heapVars>>

\* PfamClanSpec: two Pfam families are loaded and a clan is built of them.
PfamClanInit ==
    /\ FamilyCreated(PfamFamilies)
    /\ MergeIdle
    /\ SifterIdle
    /\ CallIdle
    /\ LazyIdle
    /\ HeapIdle

PfamClanNext == AddRegion \/ PfamClanFromAccession

PfamClanSpec == PfamClanInit /\ [][PfamClanNext]_vars

(***************************************************************************)
(* MergeSpec: _merge_ranges applied to every list of at most MaxLen        *)
(* half-open ranges over 0..MaxCoord, zero-length ranges included, and     *)
(* then to its own result.                                                 *)
(***************************************************************************)
Coords == 0..MaxCoord

HalfOpenRanges == {Range(a, b) : a \in Coords, b \in Coords}

ValidRanges == {r \in HalfOpenRanges : r.start <= r.stop}

MergeInit ==
    /\ ranges \in SeqsUpTo(ValidRanges, MaxLen)
    /\ merged = <<>>
    /\ remerged = <<>>
    /\ mergeCalls = 0
    /\ SifterIdle
    /\ FamilyIdle
    /\ CallIdle
    /\ LazyIdle
    /\ HeapIdle

\* merged = _merge_ranges(ranges)
Merge ==
    /\ mergeCalls = 0
    /\ merged' = _merge_ranges(ranges)
    /\ mergeCalls' = 1
    /\ UNCHANGED <<ranges, remerged, sifterVars, familyVars, callVars, lazyVars, heapVars>>

\* remerged = _merge_ranges(merged)
MergeAgain ==
    /\ mergeCalls = 1
    /\ remerged' = _merge_ranges(merged)
    /\ mergeCalls' = 2
    /\ UNCHANGED <<ranges, merged, sifterVars, familyVars, callVars, lazyVars, heapVars>>

MergeNext == Merge \/ MergeAgain

MergeSpec == MergeInit /\ [][MergeNext]_vars

(***************************************************************************)
(* SimilaritySpec: for every two sets s, t of elements, and every k and n, *)
(* one of jaccard(s, t), jaccard_containment(s, t),                        *)
(* minhash(signature(s, k), signature(t, k), n) and                        *)
(* minhash_containment(signature(s, k), signature(t, k)) is called.        *)
(***************************************************************************)
NotCalled == [op |-> "none"]

SimilarityInit ==
    /\ args \in [s : SUBSET Elements, t : SUBSET Elements,
                 k : 0..MaxN, n : 0..MaxN]
    /\ returned = NotCalled
    /\ MergeIdle
    /\ SifterIdle
    /\ FamilyIdle
    /\ LazyIdle
    /\ HeapIdle

\* mh.signature(s, k), s a set
SignatureOfSet(S, k) == signature(SetToSeq(S), k, _crc32_hash)

CallJaccard ==
    /\ returned = NotCalled
    /\ returned' = [op |-> "jaccard", result |-> jaccard(args.s, args.t)]
    /\ UNCHANGED <<args, mergeVars, sifterVars, familyVars, lazyVars, heapVars>>

CallJaccardContainment ==
    /\ returned = NotCalled
    /\ returned' = [op |-> "jaccard_containment",
                    result |-> jaccard_containment(args.s, args.t)]
    /\ UNCHANGED <<args, mergeVars, sifterVars, familyVars, lazyVars, heapVars>>

CallMinhash ==
    /\ returned = NotCalled
    /\ returned' = [op |-> "minhash",
                    result |-> minhash(SignatureOfSet(args.s, args.k),
                                       SignatureOfSet(args.t, args.k), args.n)]
    /\ UNCHANGED <<args, mergeVars, sifterVars, familyVars, lazyVars, heapVars>>

CallMinhashContainment ==
    /\ returned = NotCalled
    /\ returned' = [op |-> "minhash_containment",
                    result |-> minhash_containment(SignatureOfSet(args.s, args.k),
                                                   SignatureOfSet(args.t, args.k))]
    /\ UNCHANGED <<args, mergeVars, sifterVars, familyVars, lazyVars, heapVars>>

SimilarityNext ==
    \/ CallJaccard
    \/ CallJaccardContainment
    \/ CallMinhash
    \/ CallMinhashContainment

SimilaritySpec == SimilarityInit /\ [][SimilarityNext]_vars

(***************************************************************************)
(* SignatureSpec: signature(s, n, hash_function) is called on every list   *)
(* of at most MaxLen elements, repetitions included, with every n and      *)
(* every hash function into 0..MaxHash.                                    *)
(***************************************************************************)
HashFunctions == [Elements -> 0..MaxHash]

SignatureInit ==
    /\ args \in [items : SeqsUpTo(Elements, MaxLen), n : 0..MaxN,
                 hash_function : HashFunctions]
    /\ returned = NotCalled
    /\ MergeIdle
    /\ SifterIdle
    /\ FamilyIdle
    /\ LazyIdle
    /\ HeapIdle

CallMinhashSignature ==
    /\ returned = NotCalled
    /\ returned' = [op |-> "signature",
                    result |-> signature(args.items, args.n, args.hash_function)]
    /\ UNCHANGED <<args, mergeVars, sifterVars, familyVars, lazyVars, heapVars>>

SignatureNext == CallMinhashSignature

SignatureSpec == SignatureInit /\ [][SignatureNext]_vars

(***************************************************************************)
(* relationships/pfam.py: Hashes.hashes and Hashes.clan_hashes.  families  *)
(* is what pfam.Families yields, a dict from a family to its proteins;     *)
(* clans is what pfam.Clans yields, a dict from a clan to its members.     *)
(***************************************************************************)
\* Hashes.hashes, lines 77-80
hashes(families, n) ==
    [family \in DOMAIN families |->
        signature(SetToSeq(families[family]), n, _crc32_hash)]

\* Hashes._clan_hashes
_clan_hashes(catalog, clans, n) ==
    LET members(clan) == clans[clan] \cap DOMAIN catalog
        hs(clan) == [i \in 1..Cardinality(members(clan)) |->
                        catalog[SetToSeq(members(clan))[i]]]
    IN  [clan \in {c \in DOMAIN clans : Len(hs(c)) >= 1} |->
            IF Len(hs(clan)) = 1
            THEN hs(clan)[1]
            ELSE union_signature(hs(clan), n)]

\* Hashes.clan_hashes().hashes
clan_hashes(families, clans, n) == _clan_hashes(hashes(families, n), clans, n)

\* ClanSpec: clan_hashes() is called on a Hashes object of every catalog
\* and every signature length, with every membership of the clans.
ClanInit ==
    /\ args \in [families : UNION {[D -> (SUBSET Elements) \ {{}}] :
                                       D \in SUBSET PfamFamilies},
                 clans : [PfamClans -> SUBSET PfamFamilies],
                 n : 0..MaxN]
    /\ returned = NotCalled
    /\ MergeIdle
    /\ SifterIdle
    /\ FamilyIdle
    /\ LazyIdle
    /\ HeapIdle

CallClanHashes ==
    /\ returned = NotCalled
    /\ returned' = [op |-> "clan_hashes",
                    result |-> clan_hashes(args.families, args.clans, args.n)]
    /\ UNCHANGED <<args, mergeVars, sifterVars, familyVars, lazyVars, heapVars>>

ClanNext == CallClanHashes

ClanSpec == ClanInit /\ [][ClanNext]_vars

(***************************************************************************)
(* ChunkSpec: chunks_from_coordinates and _chunk_iterator, pfam.py lines   *)
(* 310-333, on every region (acc, start, end) with 0 <= start <= end <=    *)
(* MaxPosition and every window size in 1..MaxWindow.                      *)
(***************************************************************************)
\* A variant that numbers the chunks from one.
chunks_from_one(start, end, w) ==
    [i \in 1..((end \div w) - (start \div w) + 1) |-> (start \div w) + i]

\* list(range(start // w, end // w + 1))
chunks_from_coordinates(start, end, w) ==
    [i \in 1..((end \div w) - (start \div w) + 1) |-> (start \div w) + i - 1]

\* _chunk_iterator(regions, w): what it yields, in order
RECURSIVE _chunk_iterator(_, _)
_chunk_iterator(rs, w) ==
    IF rs = <<>> THEN <<>>
    ELSE LET acc == Head(rs)[1]
             chunks == chunks_from_coordinates(Head(rs)[2], Head(rs)[3], w)
         IN  [i \in 1..Len(chunks) |-> <<acc, chunks[i]>>]
                \o _chunk_iterator(Tail(rs), w)

ChunkInit ==
    /\ args \in {a \in [acc : Proteins, start : 0..MaxPosition,
                        end : 0..MaxPosition, w : 1..MaxWindow] :
                    a.start <= a.end}
    /\ returned = NotCalled
    /\ MergeIdle
    /\ SifterIdle
    /\ FamilyIdle
    /\ LazyIdle
    /\ HeapIdle

CallChunksFromCoordinates ==
    /\ returned = NotCalled
    /\ returned' = [op |-> "chunks_from_coordinates",
                    result |-> chunks_from_coordinates(args.start, args.end,
                                                       args.w)]
    /\ UNCHANGED <<args, mergeVars, sifterVars, familyVars, lazyVars, heapVars>>

\* set(ci) of ResidueHashes.hashes for the one region of args
CallChunkIterator ==
    /\ returned = NotCalled
    /\ returned' = [op |-> "_chunk_iterator",
                    result |-> SeqToSet(_chunk_iterator(
                                   <<<<args.acc, args.start, args.end>>>>,
                                   args.w))]
    /\ UNCHANGED <<args, mergeVars, sifterVars, familyVars, lazyVars, heapVars>>

ChunkNext == CallChunksFromCoordinates \/ CallChunkIterator

ChunkSpec == ChunkInit /\ [][ChunkNext]_vars

(***************************************************************************)
(* ConstructSpec: the constructors of the routing stages, sifter.py lines  *)
(* 44-56, 99-101, 119-126 and 155-158, called with every parameter that is *)
(* a sink or a threshold, and sift_method, either not supplied, None or    *)
(* given.  hashes and sizes are always given.                              *)
(***************************************************************************)
Unsupplied == "unsupplied"

NoneArg == "None"

Given == "given"

\* The parameters of __init__, and those of them that have the default None.
Parameters ==
    [s \in RoutingStages |->
        CASE s = HashStage -> {"low_threshold", "high_threshold", "low_sink",
                               "high_sink", "other_sink", "sift_method"}
          [] s = ClanStage -> {"threshold", "same_sink", "different_sink"}
          [] s = SizeStage -> {"bigger_sink", "smaller_sink", "abs_threshold",
                               "rel_threshold"}
          [] s = NewStage  -> {"new_sink", "other_sink", "abs_threshold",
                               "rel_threshold"}]

Defaults ==
    [s \in RoutingStages |->
        CASE s = HashStage -> {"sift_method"}
          [] s = SizeStage -> {"abs_threshold", "rel_threshold"}
          [] OTHER -> {}]

\* What a parameter is bound to in the body of __init__.
Bound(stage, params, k) ==
    IF params[k] = Unsupplied /\ k \in Defaults[stage] THEN NoneArg ELSE params[k]

\* The exception __init__ raises, or "none".
Sifter_init(stage, params) ==
    IF \E k \in Parameters[stage] \ Defaults[stage] : params[k] = Unsupplied
    THEN "TypeError"
    ELSE IF stage = HashStage /\ Bound(stage, params, "sift_method") = NoneArg
    THEN "RuntimeError"
    ELSE IF /\ stage = SizeStage
            /\ Bound(stage, params, "abs_threshold") = NoneArg
            /\ Bound(stage, params, "rel_threshold") = NoneArg
    THEN "ValueError"
    ELSE "none"

ConstructInit ==
    /\ \E stage \in RoutingStages :
          args \in [stage : {stage},
                    params : [Parameters[stage] -> {Unsupplied, NoneArg, Given}]]
    /\ returned = NotCalled
    /\ MergeIdle
    /\ SifterIdle
    /\ FamilyIdle
    /\ LazyIdle
    /\ HeapIdle

Construct ==
    /\ returned = NotCalled
    /\ returned' = [op |-> "__init__",
                    raised |-> Sifter_init(args.stage, args.params)]
    /\ UNCHANGED <<args, mergeVars, sifterVars, familyVars, lazyVars, heapVars>>

ConstructNext == Construct

ConstructSpec == ConstructInit /\ [][ConstructNext]_vars

(***************************************************************************)
(* SharingSpec: Family.__init__ and Family.add_region, Family.py lines     *)
(* 19-51, over the objects _regions refers to.  One mapping exists before  *)
(* any family does; a family is constructed with it as _regions or with    *)
(* None, and regions are added.  No family is finalised, and the memo of   *)
(* signatures is left out.                                                 *)
(***************************************************************************)
SharingFamilies == {"A", "B"}

\* The reference of the mapping that is passed as _regions.
MappingRef == "the mapping passed"

\* The reference of the defaultdict(list) that Family.__init__ creates.
OwnDict == [f \in SharingFamilies |-> IF f = "A" THEN "dict of A" ELSE "dict of B"]

\* The mappings that are passed: a dict or a defaultdict(list), empty or
\* with one region of one protein.
PassedMappings ==
    [kind : {"dict", "defaultdict"},
     items : {EmptyDict}
                \cup {[p \in {acc} |-> <<r>>] : acc \in Proteins, r \in Regions}]

SharingInit ==
    /\ heap \in [{MappingRef} -> PassedMappings]
    /\ refs = <<>>
    /\ args = <<>>
    /\ returned = NotCalled
    /\ MergeIdle
    /\ SifterIdle
    /\ FamilyIdle
    /\ LazyIdle

\* Family(_regions=...), lines 19-26
Family_init ==
    /\ \E f \in SharingFamilies \ DOMAIN refs, _regions \in {NoneArg, MappingRef} :
          /\ IF _regions = NoneArg
             THEN /\ heap' = Put(heap, OwnDict[f],
                                 [kind |-> "defaultdict", items |-> EmptyDict])
                  /\ refs' = Put(refs, f, OwnDict[f])
             ELSE /\ refs' = Put(refs, f, _regions)
                  /\ UNCHANGED heap
          /\ returned' = [op |-> "__init__", family |-> f]
    /\ UNCHANGED <<args, mergeVars, sifterVars, familyVars, lazyVars>>

\* The number of regions the objects of R hold.
RECURSIVE HeapRegions(_)
HeapRegions(R) ==
    IF R = {} THEN 0
    ELSE LET o == CHOOSE x \in R : TRUE
         IN  SumLens(heap[o].items, DOMAIN heap[o].items) + HeapRegions(R \ {o})

\* f.add_region(acc, start, end), lines 48-49: self._regions[acc] raises
\* KeyError on a dict that has no key acc.
Family_add_region ==
    /\ HeapRegions(DOMAIN heap) < MaxRegions
    /\ \E f \in DOMAIN refs, acc \in Proteins, r \in Regions :
          LET o == heap[refs[f]]
          IN  IF o.kind = "dict" /\ acc \notin DOMAIN o.items
              THEN /\ returned' = [op |-> "add_region", family |-> f,
                                   raised |-> TRUE]
                   /\ UNCHANGED heap
              ELSE /\ heap' = [heap EXCEPT ![refs[f]].items =
                                  Put(@, acc,
                                      Append(IF acc \in DOMAIN @ THEN @[acc]
                                             ELSE <<>>, r))]
                   /\ returned' = [op |-> "add_region", family |-> f,
                                   raised |-> FALSE]
    /\ UNCHANGED <<refs, args, mergeVars, sifterVars, familyVars, lazyVars>>

SharingNext == Family_init \/ Family_add_region

SharingSpec == SharingInit /\ [][SharingNext]_vars

(***************************************************************************)
(* LazySpec: the property Hashes.hashes, pfam.py lines 65-80 (and          *)
(* ResidueHashes.hashes, lines 219-227, which has the same shape), read by *)
(* several threads for the first time.  The property takes no lock, so a   *)
(* thread can be preempted between any two of its steps: the test of       *)
(* self._hashes, the assignment of a new dict, every assignment            *)
(* self._hashes[family] = ..., and the return.                             *)
(***************************************************************************)
Readers == {"r1", "r2"}

\* self.pfam.Families(*self.pfam_args): the entries of the catalog, in the
\* order they are yielded, and the proteins of every entry.
Catalog == <<"PF1", "PF2">>

CatalogProteins(family) == IF family = "PF1" THEN {"a1", "a2"} ELSE {"a2", "a3"}

\* mh.signature(proteins, self.n)
CatalogSignature(family) ==
    signature(SetToSeq(CatalogProteins(family)), MaxN, _crc32_hash)

\* The reference of the dict a reader creates.
NewDict == [r \in Readers |-> IF r = "r1" THEN "dict of r1" ELSE "dict of r2"]

\* Hashes(), with _hashes None; every reader is about to read the property.
LazyInit ==
    /\ _hashes = None
    /\ dicts = <<>>
    /\ pc = [r \in Readers |-> "test"]
    /\ at = [r \in Readers |-> 0]
    /\ got = [r \in Readers |-> None]
    /\ iterations = 0
    /\ MergeIdle
    /\ SifterIdle
    /\ FamilyIdle
    /\ CallIdle
    /\ HeapIdle

\* if self._hashes is None:
TestHashes ==
    /\ \E r \in Readers :
          /\ pc[r] = "test"
          /\ pc' = [pc EXCEPT ![r] = IF _hashes = None THEN "assign" ELSE "return"]
    /\ UNCHANGED <<_hashes, dicts, at, got, iterations>>
    /\ UNCHANGED <<mergeVars, sifterVars, familyVars, callVars, heapVars>>

\* self._hashes = {}, and the for statement starts to iterate the catalog
AssignHashes ==
    /\ \E r \in Readers :
          /\ pc[r] = "assign"
          /\ _hashes' = Some(NewDict[r])
          /\ dicts' = Put(dicts, NewDict[r], EmptyDict)
          /\ pc' = [pc EXCEPT ![r] = "for"]
    /\ iterations' = iterations + 1
    /\ UNCHANGED <<at, got>>
    /\ UNCHANGED <<mergeVars, sifterVars, familyVars, callVars, heapVars>>

\* One pass of the loop, self._hashes[family] = mh.signature(proteins,
\* self.n), on the dict self._hashes refers to now; or the end of the loop.
FillHashes ==
    /\ \E r \in Readers :
          /\ pc[r] = "for"
          /\ IF at[r] < Len(Catalog)
             THEN LET family == Catalog[at[r] + 1]
                  IN  /\ dicts' = [dicts EXCEPT ![_hashes[1]] =
                                      Put(@, family, CatalogSignature(family))]
                      /\ at' = [at EXCEPT ![r] = @ + 1]
                      /\ UNCHANGED pc
             ELSE /\ pc' = [pc EXCEPT ![r] = "return"]
                  /\ UNCHANGED <<dicts, at>>
    /\ UNCHANGED <<_hashes, got, iterations>>
    /\ UNCHANGED <<mergeVars, sifterVars, familyVars, callVars, heapVars>>

\* return self._hashes: the reader gets the dict, with what it holds now.
ReturnHashes ==
    /\ \E r \in Readers :
          /\ pc[r] = "return"
          /\ got' = [got EXCEPT ![r] =
                        Some([ref |-> _hashes[1], value |-> dicts[_hashes[1]]])]
          /\ pc' = [pc EXCEPT ![r] = "done"]
    /\ UNCHANGED <<_hashes, dicts, at, iterations>>
    /\ UNCHANGED <<mergeVars, sifterVars, familyVars, callVars, heapVars>>

LazyNext == TestHashes \/ AssignHashes \/ FillHashes \/ ReturnHashes

LazySpec == LazyInit /\ [][LazyNext]_vars

(***************************************************************************)
(* The claims about the sifter pipeline, checked under Spec.               *)
(***************************************************************************)
\* The dispatches a stage has made so far.
CallsOf(stage) == {i \in 1..Len(calls) : calls[i].stage = stage}

SinksOf(stage) == {calls[i].sink : i \in CallsOf(stage)}

\* How often x occurs in the sequence s.
Count(s, x) == Cardinality({i \in 1..Len(s) : s[i] = x})

C2_ClanRouting ==
    \A i \in CallsOf(ClanStage) :
        CLANS \in DOMAIN calls[i].data =>
            LET clans == calls[i].data[CLANS]
                same == \/ Cardinality(DOMAIN clans) <= 1
                        \/ \E c \in PfamClans :
                              \A f \in DOMAIN clans : clans[f] = c
            IN  /\ same => "same_sink" \in SinksOf(ClanStage)
                /\ ~same => SinksOf(ClanStage) = {"different_sink"}

\* C3: every sift call of a routing stage that returns has handed the
\* packet to one sink, once; and when the traversal is over the packet has
\* been stored by one Terminator, once.
C3_OneSinkOnce ==
    ~raised =>
        /\ \A stage \in RoutingStages :
              Cardinality(CallsOf(stage)) = Count(sifts, stage)
        /\ (stack = <<>> /\ sifts # <<>>) =>
              Cardinality({i \in 1..Len(sifts) : sifts[i] \in Terminators}) = 1

\* C4: SizeSifter.sift routes to smaller_sink when an absolute threshold is
\* configured and some matched entry's size is below it, or a relative
\* threshold is configured and some relative size is below it; and to
\* bigger_sink only when neither happens.
C4_SizeRouting ==
    \A i \in CallsOf(SizeStage) :
        LET abs_sizes == calls[i].data[ABSOLUTE_SIZES]
            rel_sizes == calls[i].data[RELATIVE_SIZES]
            below ==
                \/ /\ config.size_abs_threshold # None
                   /\ \E f \in DOMAIN abs_sizes :
                         abs_sizes[f] < config.size_abs_threshold[1]
                \/ /\ config.size_rel_threshold # None
                   /\ \E f \in DOMAIN rel_sizes :
                         QLess(rel_sizes[f], config.size_rel_threshold[1])
        IN  calls[i].sink = (IF below THEN "smaller_sink" ELSE "bigger_sink")

\* C5: NewFamilySifter.sift routes to new_sink iff the query size is at
\* least the minimum size and no normalised score is strictly greater than
\* the relative threshold; in every other case to other_sink.
C5_NewFamilyRouting ==
    \A i \in CallsOf(NewStage) :
        LET search_size == calls[i].data[SEARCH_SIZE]
            normalised_scores == calls[i].data[NORMALISED_FAMILY_HASH_SCORES]
            new == /\ search_size >= config.new_abs_threshold
                   /\ \A f \in DOMAIN normalised_scores :
                         normalised_scores[f][1] * config.new_rel_threshold[2]
                            <= config.new_rel_threshold[1] * normalised_scores[f][2]
        IN  /\ calls[i].sink = "new_sink" <=> new
            /\ calls[i].sink = "other_sink" <=> ~new

\* C5 witness: NewFamilySifter has routed to new_sink a query with a
\* normalised score that equals the relative threshold.
C5_Witness ==
    \E i \in CallsOf(NewStage) :
        /\ calls[i].sink = "new_sink"
        /\ \E f \in DOMAIN calls[i].data[NORMALISED_FAMILY_HASH_SCORES] :
              LET n == calls[i].data[NORMALISED_FAMILY_HASH_SCORES][f]
              IN  n[1] * config.new_rel_threshold[2]
                     = config.new_rel_threshold[1] * n[2]

(***************************************************************************)
(* The claims about Family, checked under FamilySpec.                      *)
(***************************************************************************)
\* C6: on a finalised Family every add_region call signals an error and
\* leaves the stored regions, the memoized signatures and full hash sets
\* and the finalised flag as they were.
C6_FinalisedRejectsAddRegion ==
    [][\A f \in DOMAIN regions :
          (finalised[f] /\ ret'.op = "add_region" /\ ret'.family = f) =>
              /\ ret'.raised
              /\ regions'[f] = regions[f]
              /\ signatures'[f] = signatures[f]
              /\ fhashes'[f] = fhashes[f]
              /\ finalised'[f]]_vars

\* C6 witness: add_region has raised on a finalised family that holds
\* regions, a memoized signature and a memoized full hash set.
C6_Witness ==
    /\ ret.op = "add_region"
    /\ ret.raised
    /\ finalised[ret.family]
    /\ regions[ret.family] # EmptyDict
    /\ signatures[ret.family] # EmptyDict
    /\ fhashes[ret.family] # EmptyDict

\* C7: on a Family that is not finalised, after any sequence of add_region,
\* signature and full_hash calls, signature(R) returns the signature R
\* computes from the current regions and full_hash(R) the full hash set R
\* computes from them.
C7_MemoFollowsRegions ==
    \A f \in DOMAIN regions :
        (~finalised[f] /\ ret.op \in {"signature", "full_hash"} /\ ret.family = f) =>
            /\ ret.op = "signature" => ret.value = HashesSignature(ret.hashes, f)
            /\ ret.op = "full_hash" => ret.value = HashesFullHash(ret.hashes, f)

(***************************************************************************)
(* The claims about _merge_ranges, checked under MergeSpec.                *)
(***************************************************************************)
\* C8: for every list of half-open ranges, zero-length ones included, the
\* result of merge is sorted by (start, end) and, for consecutive ranges r
\* and r', the exclusive end of r is strictly less than the start of r'.
C8_MergedSortedApart ==
    mergeCalls >= 1 =>
        \A i \in 1..(Len(merged) - 1) :
            /\ KeyLeq(merged[i], merged[i + 1])
            /\ merged[i].stop < merged[i + 1].start

\* C9: merge(merge(ranges)) == merge(ranges), zero-length ranges included.
C9_MergeIdempotent ==
    mergeCalls = 2 => RangeListEq(remerged, merged)

(***************************************************************************)
(* The claims about Family.union, checked under UnionSpec.                 *)
(***************************************************************************)
\* The residues of protein that a region of a family of F covers.
Covered(F, protein) ==
    UNION {{x \in Residues : r[1] <= x /\ x <= r[2]} :
              r \in UNION {RegionSet(f, protein) : f \in F}}

\* The integers the ranges of a list hold.
PointsOf(rs) == UNION {Points(rs[i]) : i \in 1..Len(rs)}

\* C10: F.union(G1..Gk), k >= 0, has as keys the proteins that appear in
\* any of the families, and the ranges of a protein cover the residues
\* that some region of the protein covers in some family, overlapping and
\* adjacent coverage being one range; with k = 0 that is the merged
\* coverage of F itself.
C10_UnionCovers ==
    ret.op = "union" =>
        LET F == {ret.family} \cup SeqToSet(ret.others)
            out == ret.value
        IN  /\ DOMAIN out = UNION {proteins(f) : f \in F}
            /\ \A protein \in DOMAIN out :
                  /\ PointsOf(out[protein]) = Covered(F, protein)
                  /\ \A i \in 1..Len(out[protein]) :
                        out[protein][i].start < out[protein][i].stop
                  /\ \A i \in 1..(Len(out[protein]) - 1) :
                        out[protein][i].stop < out[protein][i + 1].start

\* C10 witness: a union with two other families in which adjacent regions
\* of two different families have become one range of a protein.
C10_Witness ==
    /\ ret.op = "union"
    /\ Len(ret.others) = 2
    /\ \E protein \in Proteins, f, g \in DOMAIN regions :
          /\ f # g
          /\ \E r \in RegionSet(f, protein), q \in RegionSet(g, protein) :
                /\ r[2] + 1 = q[1]
                /\ ret.value[protein] = <<Range(r[1], q[2] + 1)>>

\* C11: union does not depend on which family is the receiver nor on the
\* order of the arguments: every call on the same families, such as
\* A.union(B, C), B.union(A, C) and C.union(B, A), or A.union(B) and
\* B.union(A), returns the same mapping.
C11_UnionCommutes ==
    ret.op = "union" =>
        LET F == {ret.family} \cup SeqToSet(ret.others)
        IN  \A g \in F : \A others \in Others(g) :
                ({g} \cup SeqToSet(others) = F) =>
                    union(g, others) = ret.value

\* C11 witness: a union of three families, called on a family without
\* regions, in which the two arguments hold different proteins.
C11_Witness ==
    /\ ret.op = "union"
    /\ Len(ret.others) = 2
    /\ proteins(ret.family) = {}
    /\ proteins(ret.others[1]) # {}
    /\ proteins(ret.others[2]) # {}
    /\ proteins(ret.others[1]) # proteins(ret.others[2])
    /\ DOMAIN ret.value = Proteins

C13_ResiduesCovered ==
    ret.op = "residues_covered" =>
        LET f == ret.family
            u == union(f, <<>>)
        IN  /\ ret.value =
                  Cardinality({px \in Proteins \X Residues :
                                  px[2] \in Covered({f}, px[1])})
            /\ ret.value =
                  Cardinality(UNION {{<<protein, x>> : x \in PointsOf(u[protein])} :
                                        protein \in DOMAIN u})

\* C13 witness: residues_covered of a family with two regions of one
\* protein that overlap or are the same region.
C13_Witness ==
    /\ ret.op = "residues_covered"
    /\ \E protein \in proteins(ret.family) :
          /\ Len(regions[ret.family][protein]) = 2
          /\ regions[ret.family][protein][1][2] >= regions[ret.family][protein][2][1]
          /\ regions[ret.family][protein][2][2] >= regions[ret.family][protein][1][1]

(***************************************************************************)
(* The claims about jaccard.py and the estimates of minhash.py, checked    *)
(* under SimilaritySpec.                                                   *)
(***************************************************************************)
Zero == <<0, 1>>

One == <<1, 1>>

\* C14: jaccard(S, T) is |S n T| / |S u T|; so jaccard(S, T) is
\* jaccard(T, S), jaccard(S, S) is 1 for S not empty, and jaccard(S, T) is
\* 0 for S, T disjoint and not empty.
C14_Jaccard ==
    returned.op = "jaccard" =>
        LET S == args.s
            T == args.t
            r == returned.result
        IN  /\ ~r.raised
            /\ S \cup T # {} =>
                  QEq(r.value, <<Cardinality(S \cap T), Cardinality(S \cup T)>>)
            /\ r = jaccard(T, S)
            /\ (S = T /\ S # {}) => QEq(r.value, One)
            /\ (S \cap T = {} /\ S # {} /\ T # {}) => QEq(r.value, Zero)

\* C14 witness: jaccard of two different sets that share an element.
C14_Witness ==
    /\ returned.op = "jaccard"
    /\ args.s \cap args.t # {}
    /\ args.s \ args.t # {}
    /\ args.t \ args.s # {}

ZeroDenominator ==
    LET s == SignatureOfSet(args.s, args.k)
        t == SignatureOfSet(args.t, args.k)
    IN  \/ returned.op = "jaccard" /\ args.s \cup args.t = {}
        \/ returned.op = "jaccard_containment" /\ (args.s = {} \/ args.t = {})
        \/ returned.op = "minhash" /\ union_signature(<<s, t>>, args.n) = {}
        \/ returned.op = "minhash_containment" /\ (s = {} \/ t = {})

\* C17: jaccard, jaccard_containment, minhash and minhash_containment do
\* not fail on a zero denominator: each returns 0.
C17_ZeroOnZeroDenominator ==
    ZeroDenominator =>
        /\ ~returned.result.raised
        /\ QEq(returned.result.value, Zero)

\* C17 witness: minhash of two signatures that are not empty, with the
\* signature length 0.
C17_Witness ==
    /\ returned.op = "minhash"
    /\ args.n = 0
    /\ SignatureOfSet(args.s, args.k) # {}
    /\ SignatureOfSet(args.t, args.k) # {}

\* C19: for n >= |S u T|, minhash(signature(S, n), signature(T, n), n) is
\* jaccard(S, T), and it is the same with the two signatures swapped.
C19_MinhashIsJaccard ==
    (/\ returned.op = "minhash"
     /\ args.k = args.n
     /\ args.n >= Cardinality(args.s \cup args.t)) =>
        LET s == SignatureOfSet(args.s, args.n)
            t == SignatureOfSet(args.t, args.n)
            r == returned.result
        IN  /\ ~r.raised
            /\ QEq(r.value, jaccard(args.s, args.t).value)
            /\ r = minhash(t, s, args.n)

\* C19 witness: minhash of the signatures of two different sets that share
\* an element, with a signature longer than their union.
C19_Witness ==
    /\ returned.op = "minhash"
    /\ args.k = args.n
    /\ args.n > Cardinality(args.s \cup args.t)
    /\ args.s \cap args.t # {}
    /\ args.s # args.t

(***************************************************************************)
(* The claim about minhash.signature, checked under SignatureSpec.         *)
(***************************************************************************)
\* C18: signature(elements, n, hash_fn) is the set of the min(n, number of
\* distinct elements) pairs (hash, element) that are smallest by hash and
\* then by element; so it has at most n pairs.
C18_SignatureSmallest ==
    returned.op = "signature" =>
        LET h == args.hash_function
            pairs == {<<h[e], e>> : e \in SeqToSet(args.items)}
            smallest == {p \in pairs :
                            Cardinality({q \in pairs : PairLess(q, p)}) < args.n}
        IN  /\ returned.result = smallest
            /\ Cardinality(returned.result) = Min(args.n, Cardinality(pairs))
            /\ Cardinality(returned.result) <= args.n

(***************************************************************************)
(* The claim about Hashes.clan_hashes, checked under ClanSpec.             *)
(***************************************************************************)
\* The members of a clan that have a signature in the catalog.
SignedMembers(clan) == args.clans[clan] \cap DOMAIN args.families

\* C20: clan_hashes() has an entry for a clan iff some member of the clan
\* has a signature in the catalog; with one such member the entry is the
\* signature of that member, and with two or more it is the n smallest
\* pairs of the union of their signatures: at most n pairs, and the whole
\* union when that has at most n pairs.
C20_ClanHashes ==
    returned.op = "clan_hashes" =>
        LET catalog == hashes(args.families, args.n)
            chs == returned.result
        IN  \A clan \in PfamClans :
                LET U == UNION {catalog[f] : f \in SignedMembers(clan)}
                    smallest == {p \in U :
                                    Cardinality({q \in U : PairLess(q, p)}) < args.n}
                IN  /\ clan \in DOMAIN chs <=> SignedMembers(clan) # {}
                    /\ \A f \in SignedMembers(clan) :
                          SignedMembers(clan) = {f} => chs[clan] = catalog[f]
                    /\ Cardinality(SignedMembers(clan)) >= 2 =>
                          /\ chs[clan] = smallest
                          /\ Cardinality(chs[clan]) <= args.n
                          /\ Cardinality(U) <= args.n => chs[clan] = U

\* C20 witness: a clan with two signed members whose signatures together
\* hold more than n >= 1 pairs, next to a clan with one signed member.
C20_Witness ==
    /\ returned.op = "clan_hashes"
    /\ args.n >= 1
    /\ \E clan, other \in PfamClans :
          /\ Cardinality(SignedMembers(clan)) = 2
          /\ Cardinality(UNION {hashes(args.families, args.n)[f] :
                                   f \in SignedMembers(clan)}) > args.n
          /\ Cardinality(returned.result[clan]) = args.n
          /\ clan # other
          /\ Cardinality(SignedMembers(other)) = 1

\* C23: for every catalog, whatever its number of entries, when every
\* catalog score is 0 and low_threshold >= 0, HashSifter.sift routes the
\* packet to low_sink and to no other sink.
C23_ZeroScoresToLowSink ==
    LET allZero ==
            \/ config.hashes = {}
            \/ \E i \in CallsOf(HashStage) :
                  \A f \in config.hashes : calls[i].data[SEARCH].scores[f] = 0
    IN  (Count(sifts, HashStage) = 1 /\ config.low_threshold >= 0 /\ allZero) =>
            /\ Cardinality(CallsOf(HashStage)) = 1
            /\ SinksOf(HashStage) = {"low_sink"}

\* The stage whose sink a stage is wired to, and the stages from the entry
\* of the pipeline down to a stage.
Upstream(stage) ==
    CHOOSE s \in RoutingStages : \E k \in DOMAIN Sinks[s] : Sinks[s][k] = stage

RECURSIVE PathTo(_)
PathTo(stage) ==
    IF stage = HashStage
    THEN <<HashStage>>
    ELSE Append(PathTo(Upstream(stage)), stage)

\* C24: whenever a Terminator stores a packet, the audit trail it stores
\* lists, in order and once each, the stages that were invoked on that
\* packet up to and including that Terminator.  The trail stored is the
\* list behind SiftsList, and the Terminator that has just stored is its
\* last entry.
C24_StoredTrailIsPath ==
    (sifts # <<>> /\ sifts[Len(sifts)] \in Terminators) =>
        sifts = PathTo(sifts[Len(sifts)])

\* C25: a stage does not mutate the packet it receives: the audit trail
\* the received packet holds is after sift what it was before.
C25_ReceivedPacketUnchanged ==
    [][(stack # <<>> /\ Top.data[SIFTS] = SiftsList) => sifts' = sifts]_vars

\* C22: the size ResidueSizes records for a catalog entry is the number of
\* residues its regions cover, overlapping regions counted once: what
\* residues_covered gives for a Family with exactly those regions, which
\* is also how the size of a query is measured.
C22_SizeIsResiduesCovered ==
    ret.op = "sizes" =>
        /\ ret.value = residues_covered(ret.family)
        /\ ret.value = ret.query

\* C28: the mapping Family.overlap returns is keyed only by proteins on
\* which regions of the two families overlap: every key maps to a list
\* that is not empty, of ranges that are not empty.
C28_OverlapKeysOverlap ==
    ret.op = "overlap" =>
        \A acc \in DOMAIN ret.value :
            /\ ret.value[acc] # <<>>
            /\ \A i \in 1..Len(ret.value[acc]) : RangeLen(ret.value[acc][i]) > 0

\* C30: PfamClan.from_accession yields, for every clan with at least one
\* member, a finalised family that covers exactly the residues the union
\* of its member families covers; its residues_covered() is the number of
\* these residues.
C30_ClanCoversMembers ==
    ret.op = "from_accession" =>
        LET clan == ret.family
            F == SeqToSet(ret.members)
            covered(protein) ==
                {x \in 1..(MaxResidue + 1) :
                    \E r \in RegionSet(clan, protein) : r[1] <= x /\ x <= r[2]}
            residues ==
                UNION {{<<protein, x>> : x \in Covered(F, protein)} :
                          protein \in Proteins}
        IN  /\ finalised[clan]
            /\ \A protein \in Proteins : covered(protein) = Covered(F, protein)
            /\ residues_covered(clan) = Cardinality(residues)

C26_MissingFailsAtConstruction ==
    returned.op = "__init__" =>
        LET stage == args.stage
            missing(k) == args.params[k] \in {Unsupplied, NoneArg}
            thresholds == {k \in Parameters[stage] :
                              k \notin {"sift_method"} /\ k \notin
                                  {"low_sink", "high_sink", "other_sink",
                                   "same_sink", "different_sink", "bigger_sink",
                                   "smaller_sink", "new_sink"}}
            sinks == Parameters[stage] \ (thresholds \cup {"sift_method"})
            required ==
                \/ \E k \in sinks : missing(k)
                \/ IF stage = SizeStage
                   THEN \A k \in thresholds : missing(k)
                   ELSE \E k \in thresholds : missing(k)
        IN  required => returned.raised # "none"

\* C27: no two Family instances share the storage of their ranges, two
\* families built from the same _regions mapping included: add_region on
\* one family changes neither the regions of another family nor the
\* mapping that was passed.
C27_NoSharedStorage ==
    [][\A f \in DOMAIN refs :
          (returned'.op = "add_region" /\ returned'.family = f) =>
              /\ \A g \in DOMAIN refs \ {f} :
                    /\ refs[g] # refs[f]
                    /\ heap'[refs'[g]].items = heap[refs[g]].items
              /\ heap'[MappingRef] = heap[MappingRef]]_vars

\* C21: when several callers read the property hashes concurrently for the
\* first time, the catalog is iterated at most once and every reader gets
\* the same, complete mapping: no reader gets a mapping that is empty or
\* partly filled, and no two readers get different dicts.
C21_LazyOnceAndComplete ==
    LET complete == [i \in 1..Len(Catalog) |-> CatalogSignature(Catalog[i])]
        done == {r \in Readers : pc[r] = "done"}
    IN  /\ iterations <= 1
        /\ \A r \in done :
              /\ DOMAIN got[r][1].value = SeqToSet(Catalog)
              /\ \A i \in 1..Len(Catalog) :
                    got[r][1].value[Catalog[i]] = complete[i]
        /\ \A r1, r2 \in done : got[r1][1].ref = got[r2][1].ref

=============================================================================
